---- MODULE Spec2Model ----
(***************************************************************************)
(* Project board (src/src/app.ts): the ProjectState store with its         *)
(* listeners, the two ProjectList columns, the ProjectInput form and the   *)
(* drag-and-drop handlers.                                                 *)
(*                                                                         *)
(* Project objects live in `heap` (a Project reference is an index into    *)
(* it), because the store, the snapshots and the columns share the same    *)
(* objects.  Texts whose length or trimmed form the code inspects are      *)
(* sequences of one-character strings; ids and transfer payloads are only  *)
(* compared with === and are plain strings.                                *)
(***************************************************************************)
EXTENDS Integers, Sequences, FiniteSets, TLC

VARIABLES
    heap,             \* Project objects ever constructed, by reference
    projects,         \* projectState.projects: sequence of references
    listeners,        \* projectState.listeners: sequence of listener functions
    instance,         \* ProjectState.instance (static slot), 0 = undefined
    instances,        \* number of ProjectState objects constructed so far
    returned,         \* references returned by the getInstance calls so far
    assignedProjects, \* ProjectList.assignedProjects of each column
    cards,            \* children of each column's <ul>: the ProjectItems
    droppable,        \* whether each column's <ul> carries class 'droppable'
    form,             \* values of the three input elements
    drag,             \* the gesture in progress and its DataTransfer
    notified,         \* listener invocations made by the last handler
    last              \* the last operation or event and its arguments

vars == <<heap, projects, listeners, instance, instances, returned,
          assignedProjects, cards, droppable, form, drag, notified, last>>

(***************************************************************************)
(* Bounds                                                                  *)
(***************************************************************************)
MaxProjects == 2
MaxProbes == 2
MaxInstances == 2

(***************************************************************************)
(* Project type                                                            *)
(***************************************************************************)
Active == 0
Finished == 1
ProjectStatus == {Active, Finished}

Project(id, title, description, people, status) ==
    [id |-> id, title |-> title, description |-> description,
     people |-> people, status |-> status]

\* Values Math.random().toString() may return; nothing makes two calls differ.
RandomValues == {"0.25", "0.75"}

Columns == {"active", "finished"}
\* Listener functions other than the two column closures.
Probes == {"f", "g"}

\* this.type === 'active' ? ProjectStatus.Active : ProjectStatus.Finished
StatusOf(type) == IF type = "active" THEN Active ELSE Finished

\* The constant projectState: the object the first getInstance call built.
projectState == 1

(***************************************************************************)
(* Numbers and texts                                                       *)
(***************************************************************************)
\* A JS number, in tenths; NaN compares false with everything.
Num(n) == [type |-> "number", nan |-> FALSE, tenths |-> 10 * n]
Tenths(t) == [type |-> "number", nan |-> FALSE, tenths |-> t]
NaN == [type |-> "number", nan |-> TRUE, tenths |-> 0]
Str(s) == [type |-> "string", str |-> s]

Geq(a, b) == ~a.nan /\ ~b.nan /\ a.tenths >= b.tenths
Leq(a, b) == ~a.nan /\ ~b.nan /\ a.tenths <= b.tenths

WhiteSpace == {" "}
DigitChars == <<"0", "1", "2", "3", "4", "5", "6", "7", "8", "9">>
IsDigit(c) == \E i \in 1..10 : DigitChars[i] = c
DigitValue(c) == (CHOOSE i \in 1..10 : DigitChars[i] = c) - 1

RECURSIVE trimStart(_)
trimStart(s) ==
    IF s # <<>> /\ Head(s) \in WhiteSpace THEN trimStart(Tail(s)) ELSE s

RECURSIVE trimEnd(_)
trimEnd(s) ==
    IF s # <<>> /\ s[Len(s)] \in WhiteSpace
    THEN trimEnd(SubSeq(s, 1, Len(s) - 1)) ELSE s

\* String.prototype.trim
trim(s) == trimEnd(trimStart(s))

RECURSIVE natToString(_)
natToString(n) ==
    IF n < 10 THEN <<DigitChars[n + 1]>>
    ELSE natToString(n \div 10) \o <<DigitChars[(n % 10) + 1]>>

\* Number.prototype.toString, for NaN and numbers with one decimal at most
numberToString(v) ==
    IF v.nan THEN <<"N", "a", "N">>
    ELSE LET a == IF v.tenths < 0 THEN -v.tenths ELSE v.tenths
             whole == natToString(a \div 10)
             frac == IF a % 10 = 0 THEN <<>> ELSE <<".", DigitChars[(a % 10) + 1]>>
         IN  (IF v.tenths < 0 THEN <<"-">> ELSE <<>>) \o whole \o frac

\* value.toString() of a string | number
toString(v) == IF v.type = "string" THEN v.str ELSE numberToString(v)

RECURSIVE digitsValue(_)
digitsValue(s) ==
    IF s = <<>> THEN 0
    ELSE 10 * digitsValue(SubSeq(s, 1, Len(s) - 1)) + DigitValue(s[Len(s)])

AllDigits(s) == \A i \in 1..Len(s) : IsDigit(s[i])

\* Variant: + value || 1, so that 0 and NaN become 1.
toNumber_orOne(s) ==
    LET t == trim(s)
        dots == {i \in 1..Len(t) : t[i] = "."}
        n == IF t = <<>> THEN Num(0)
             ELSE IF dots = {} THEN
                 IF AllDigits(t) THEN Num(digitsValue(t)) ELSE NaN
             ELSE IF Cardinality(dots) = 1 THEN
                 LET d == CHOOSE i \in dots : TRUE
                     whole == SubSeq(t, 1, d - 1)
                     frac == SubSeq(t, d + 1, Len(t))
                 IN  IF whole # <<>> /\ AllDigits(whole) /\ Len(frac) = 1 /\ AllDigits(frac)
                     THEN Tenths(10 * digitsValue(whole) + digitsValue(frac))
                     ELSE NaN
             ELSE NaN
    IN  IF n.nan \/ n.tenths = 0 THEN Num(1) ELSE n

\* Unary plus on a string (ToNumber): white space is stripped, the empty
\* string is 0, a decimal literal is its value, anything else is NaN.
\* Decimal literals are covered up to one fractional digit, without sign
\* or exponent; the input texts of the model stay inside that range.
toNumber(s) ==
    LET t == trim(s)
        dots == {i \in 1..Len(t) : t[i] = "."}
    IN  IF t = <<>> THEN Num(0)
        ELSE IF dots = {} THEN
            IF AllDigits(t) THEN Num(digitsValue(t)) ELSE NaN
        ELSE IF Cardinality(dots) = 1 THEN
            LET d == CHOOSE i \in dots : TRUE
                whole == SubSeq(t, 1, d - 1)
                frac == SubSeq(t, d + 1, Len(t))
            IN  IF whole # <<>> /\ AllDigits(whole) /\ Len(frac) = 1 /\ AllDigits(frac)
                THEN Tenths(10 * digitsValue(whole) + digitsValue(frac))
                ELSE NaN
        ELSE NaN

(***************************************************************************)
(* Validation                                                              *)
(***************************************************************************)
\* A Validatable is a record with field value and any of the optional
\* fields; an absent field reads as undefined.
Has(v, f) == f \in DOMAIN v

\* Variant: the min option is tested for truthiness instead of != null.
validate_truthyMin(validatableInput) ==
    LET value == validatableInput.value
        r1 == IF Has(validatableInput, "required") /\ validatableInput.required
              THEN Len(trim(toString(value))) # 0 ELSE TRUE
        r2 == IF Has(validatableInput, "minLength") /\ value.type = "string"
              THEN r1 /\ Len(value.str) >= validatableInput.minLength ELSE r1
        r3 == IF Has(validatableInput, "maxLength") /\ value.type = "string"
              THEN r2 /\ Len(value.str) <= validatableInput.maxLength ELSE r2
        r4 == IF Has(validatableInput, "min") /\ validatableInput.min # 0
                 /\ value.type = "number"
              THEN r3 /\ Geq(value, Num(validatableInput.min)) ELSE r3
        r5 == IF Has(validatableInput, "max") /\ value.type = "number"
              THEN r4 /\ Leq(value, Num(validatableInput.max)) ELSE r4
    IN  r5

\* validate: each rule is applied when its option is not null/undefined
\* (required: when truthy) and the value has the rule's type.
validate(validatableInput) ==
    LET value == validatableInput.value
        r1 == IF Has(validatableInput, "required") /\ validatableInput.required
              THEN Len(trim(toString(value))) # 0 ELSE TRUE
        r2 == IF Has(validatableInput, "minLength") /\ value.type = "string"
              THEN r1 /\ Len(value.str) >= validatableInput.minLength ELSE r1
        r3 == IF Has(validatableInput, "maxLength") /\ value.type = "string"
              THEN r2 /\ Len(value.str) <= validatableInput.maxLength ELSE r2
        r4 == IF Has(validatableInput, "min") /\ value.type = "number"
              THEN r3 /\ Geq(value, Num(validatableInput.min)) ELSE r3
        r5 == IF Has(validatableInput, "max") /\ value.type = "number"
              THEN r4 /\ Leq(value, Num(validatableInput.max)) ELSE r4
    IN  r5

(***************************************************************************)
(* Project state management                                                *)
(***************************************************************************)
\* The Project objects a sequence of references points at, as read now.
Deref(h, items) == [i \in 1..Len(items) |-> h[items[i]]]

\* ProjectList.renderProjects: the <ul> is emptied (innerHTML = '', which
\* leaves its class list alone) and one ProjectItem per assigned project is
\* appended, its element id being the project's id.
renderProjects(h, assigned) ==
    [i \in 1..Len(assigned) |-> [id |-> h[assigned[i]].id, project |-> assigned[i]]]

\* Variant: the column test is dropped, every column keeps the finished ones.
columnListener_noTypeTest(type, items, w) ==
    LET relevantProjects == SelectSeq(items, LAMBDA prj : w.heap[prj].status = Finished)
    IN  [w EXCEPT !.assigned[type] = relevantProjects,
                  !.cards[type] = renderProjects(w.heap, relevantProjects)]

\* The closure registered by ProjectList.configure for the column `type`.
columnListener(type, items, w) ==
    LET relevantProjects ==
            SelectSeq(items, LAMBDA prj :
                IF type = "active" THEN w.heap[prj].status = Active
                ELSE w.heap[prj].status = Finished)
    IN  [w EXCEPT !.assigned[type] = relevantProjects,
                  !.cards[type] = renderProjects(w.heap, relevantProjects)]

\* A listener that writes to what it is handed: items.pop() acts on the
\* array slice() made for this call and is lost with it; items[0].title =
\* 'X' acts on the Project object, which is the store's own object.
TitleX == <<"X">>
writerListener(items, w) ==
    IF items = <<>> THEN w
    ELSE [w EXCEPT !.heap[items[1]].title = TitleX]

\* One call listenerFn(items); the call is recorded in w.log with the
\* projects as they are when the call starts.
callListener(listenerFn, items, w) ==
    LET logged == [w EXCEPT !.log = Append(@, [listener |-> listenerFn,
                                                  items |-> items,
                                                  seen |-> Deref(w.heap, items)])]
    IN  IF listenerFn \in Columns THEN columnListener(listenerFn, items, logged)
        ELSE IF listenerFn = "writer" THEN writerListener(items, logged)
        ELSE logged

\* Variant: the listeners are called from the last registered to the first.
RECURSIVE updateListeners_reverse(_, _, _, _)
updateListeners_reverse(ps, ls, i, w) ==
    IF i > Len(ls) THEN w
    ELSE callListener(ls[i], ps, updateListeners_reverse(ps, ls, i + 1, w))

\* ProjectState.updateListeners: for (const listenerFn of this.listeners)
\* listenerFn(this.projects.slice()), from position i on.
RECURSIVE updateListeners(_, _, _, _)
updateListeners(ps, ls, i, w) ==
    IF i > Len(ls) THEN w
    ELSE updateListeners(ps, ls, i + 1, callListener(ls[i], ps, w))

\* The heap, the views and the call log after updateListeners ran on heap
\* h and projects ps.
Notified(h, ps) ==
    LET w == updateListeners(ps, listeners, 1,
                 [heap |-> h, assigned |-> assignedProjects, cards |-> cards,
                  log |-> <<>>])
    IN  /\ heap' = w.heap
        /\ assignedProjects' = w.assigned
        /\ cards' = w.cards
        /\ notified' = w.log

\* Variant: a function already registered is not registered again.
addListener_dedup(listenerFn) ==
    listeners' = IF \E i \in 1..Len(listeners) : listeners[i] = listenerFn
                 THEN listeners ELSE Append(listeners, listenerFn)

\* State.addListener
addListener(listenerFn) ==
    listeners' = Append(listeners, listenerFn)

\* ProjectState.getInstance: the static slot is read and never written.
getInstance ==
    IF instance # 0
    THEN /\ returned' = Append(returned, instance)
         /\ UNCHANGED <<instance, instances>>
    ELSE /\ instances' = instances + 1
         /\ returned' = Append(returned, instances + 1)
         /\ UNCHANGED instance

\* Variant: unshift instead of push.
addProject_unshift(title, description, numOfPeople) ==
    \E rnd \in RandomValues :
        LET newProject == Project(rnd, title, description, numOfPeople, Active)
            h == Append(heap, newProject)
            ps == <<Len(heap) + 1>> \o projects
        IN  /\ projects' = ps
            /\ Notified(h, ps)

\* ProjectState.addProject, with rnd the value Math.random() returns
addProject(title, description, numOfPeople) ==
    \E rnd \in RandomValues :
        LET newProject == Project(rnd, title, description, numOfPeople, Active)
            h == Append(heap, newProject)
            ps == Append(projects, Len(heap) + 1)
        IN  /\ projects' = ps
            /\ Notified(h, ps)

\* Variant: falls back to the first project when no id matches.
find_orFirst(h, ps, projectId) ==
    LET matches == {i \in 1..Len(ps) : h[ps[i]].id = projectId}
    IN  IF matches = {} THEN (IF ps = <<>> THEN 0 ELSE ps[1])
        ELSE ps[CHOOSE i \in matches : \A j \in matches : i <= j]

\* Array.prototype.find: the first project whose id matches, 0 if none
find(h, ps, projectId) ==
    LET matches == {i \in 1..Len(ps) : h[ps[i]].id = projectId}
    IN  IF matches = {} THEN 0
        ELSE ps[CHOOSE i \in matches : \A j \in matches : i <= j]

\* Variant: forEach over the matching projects instead of find.
moveProject_everyMatch(projectId, newStatus) ==
    LET h == [r \in 1..Len(heap) |->
                 IF heap[r].id = projectId THEN [heap[r] EXCEPT !.status = newStatus]
                 ELSE heap[r]]
    IN  /\ UNCHANGED projects
        /\ Notified(h, projects)

\* ProjectState.moveProject
moveProject(projectId, newStatus) ==
    LET project == find(heap, projects, projectId)
        h == IF project # 0 /\ heap[project].status # newStatus
             THEN [heap EXCEPT ![project].status = newStatus]
             ELSE heap
    IN  /\ UNCHANGED projects
        /\ Notified(h, projects)

(***************************************************************************)
(* The store driven through its public methods                             *)
(***************************************************************************)
Chars(n, c) == [i \in 1..n |-> c]
TitleT == <<"T">>
Desc5 == <<"a", "b", "c", "d", "e">>

\* Argument triples of direct addProject calls: the store validates nothing.
StoreArgs == {<<TitleT, Desc5, Num(3)>>, <<<<>>, <<>>, NaN>>}
\* Ids handed to direct moveProject calls.
IdArgs == RandomValues \cup {""}

NumProbes == Cardinality({i \in 1..Len(listeners) : listeners[i] \in Probes})

UIUnchanged == UNCHANGED <<droppable, form, drag>>
SingletonUnchanged == UNCHANGED <<instance, instances, returned>>

AddProject ==
    /\ Len(projects) < MaxProjects
    /\ \E a \in StoreArgs : addProject(a[1], a[2], a[3])
    /\ last' = [op |-> "addProject"]
    /\ UNCHANGED listeners /\ SingletonUnchanged /\ UIUnchanged

MoveProject ==
    /\ \E projectId \in IdArgs, newStatus \in ProjectStatus :
          /\ moveProject(projectId, newStatus)
          /\ last' = [op |-> "moveProject", id |-> projectId, status |-> newStatus]
    /\ UNCHANGED listeners /\ SingletonUnchanged /\ UIUnchanged

AddListener ==
    /\ NumProbes < MaxProbes
    /\ \E listenerFn \in Probes :
          /\ addListener(listenerFn)
          /\ last' = [op |-> "addListener", fn |-> listenerFn]
    /\ notified' = <<>>
    /\ UNCHANGED <<heap, projects, assignedProjects, cards>>
    /\ SingletonUnchanged /\ UIUnchanged

GetInstance ==
    /\ Len(returned) < MaxInstances
    /\ getInstance
    /\ last' = [op |-> "getInstance"]
    /\ notified' = <<>>
    /\ UNCHANGED <<heap, projects, listeners, assignedProjects, cards>>
    /\ UIUnchanged

NoDrag == [phase |-> "idle"]
ClearedForm == [title |-> <<>>, description |-> <<>>, people |-> <<>>]

\* After the module has run: projectState = getInstance() (line 80), then
\* the form and the two columns were constructed, each column registering
\* its listener ('active' first).
Init ==
    /\ heap = <<>>
    /\ projects = <<>>
    /\ listeners = <<"active", "finished">>
    /\ instance = 0
    /\ instances = 1
    /\ returned = <<projectState>>
    /\ assignedProjects = [c \in Columns |-> <<>>]
    /\ cards = [c \in Columns |-> <<>>]
    /\ droppable = [c \in Columns |-> FALSE]
    /\ form = ClearedForm
    /\ drag = NoDrag
    /\ notified = <<>>
    /\ last = [op |-> "init"]

StoreNext == AddProject \/ MoveProject \/ AddListener \/ GetInstance

StoreSpec == Init /\ [][StoreNext]_vars

\* A listener that writes to its snapshot is registered (once).
AddWriter ==
    /\ \A i \in 1..Len(listeners) : listeners[i] # "writer"
    /\ addListener("writer")
    /\ last' = [op |-> "addListener", fn |-> "writer"]
    /\ notified' = <<>>
    /\ UNCHANGED <<heap, projects, assignedProjects, cards>>
    /\ SingletonUnchanged /\ UIUnchanged

\* The store with listeners that may write to what they receive.
ListenerNext == AddProject \/ MoveProject \/ AddListener \/ AddWriter

ListenerSpec == Init /\ [][ListenerNext]_vars

(***************************************************************************)
(* The submission form                                                     *)
(***************************************************************************)
\* Variant: the three checks are joined by && instead of ||.
gatherInputs_allFail(f) ==
    LET title == f.title
        description == f.description
        people == toNumber(f.people)
        titleValidatable == [value |-> Str(title), required |-> TRUE]
        descriptionValidatable ==
            [value |-> Str(description), required |-> TRUE, minLength |-> 5]
        peopleValidatable ==
            [value |-> people, required |-> TRUE, min |-> 1, max |-> 5]
    IN  IF ~validate(titleValidatable) /\ ~validate(descriptionValidatable)
           /\ ~validate(peopleValidatable)
        THEN <<>>
        ELSE <<title, description, people>>

\* ProjectInput.gatherInputs on the field values f: the tuple, or <<>> for
\* the void result (after the alert).
gatherInputs(f) ==
    LET title == f.title
        description == f.description
        people == toNumber(f.people)
        titleValidatable == [value |-> Str(title), required |-> TRUE]
        descriptionValidatable ==
            [value |-> Str(description), required |-> TRUE, minLength |-> 5]
        peopleValidatable ==
            [value |-> people, required |-> TRUE, min |-> 1, max |-> 5]
    IN  IF \/ ~validate(titleValidatable)
           \/ ~validate(descriptionValidatable)
           \/ ~validate(peopleValidatable)
        THEN <<>>
        ELSE <<title, description, people>>

\* Array.isArray(inputs)
isArray(inputs) == inputs # <<>>

\* ProjectInput.clearInputs
clearInputs == form' = ClearedForm

\* ProjectInput.submitHandler
submitHandler ==
    LET inputs == gatherInputs(form)
    IN  IF isArray(inputs)
        THEN /\ addProject(inputs[1], inputs[2], inputs[3])
             /\ clearInputs
        ELSE /\ notified' = <<>>
             /\ UNCHANGED <<heap, projects, assignedProjects, cards, form>>

\* Texts the user may type into the fields.
Titles == {<<>>, <<" ">>, TitleT}
Descriptions == {<<>>, <<"a", "b">>, Chars(5, " "), Desc5}
PeopleTexts == {<<>>, <<" ">>, <<"x">>, <<"0">>, <<"3">>, <<"6">>, <<"2", ".", "5">>}
AllForms == [title : Titles, description : Descriptions, people : PeopleTexts]
\* The fillings used when the form runs together with the drag gestures.
BoardForms == {[title |-> TitleT, description |-> Desc5, people |-> <<"3">>],
               [title |-> TitleT, description |-> Desc5, people |-> <<"2", ".", "5">>],
               [title |-> TitleT, description |-> <<"a", "b">>, people |-> <<"3">>]}

StoreFrame == UNCHANGED listeners /\ SingletonUnchanged

\* The user edits the fields (no handler of the program runs).
Input(fillings) ==
    /\ \E f \in fillings : form' = f
    /\ last' = [op |-> "input"]
    /\ notified' = <<>>
    /\ UNCHANGED <<heap, projects, assignedProjects, cards, droppable, drag>>
    /\ StoreFrame

Submit ==
    /\ isArray(gatherInputs(form)) => Len(projects) < MaxProjects
    /\ submitHandler
    /\ last' = [op |-> "submit"]
    /\ UNCHANGED <<droppable, drag>>
    /\ StoreFrame

FormNext == Input(AllForms) \/ Submit

FormSpec == Init /\ [][FormNext]_vars

(***************************************************************************)
(* validate on its own                                                     *)
(***************************************************************************)
Absent == -1
Option(present, field, x) == IF present THEN field :> x ELSE <<>>

\* The Validatable with the given value and options; Absent leaves an
\* option out, required is 1 for true and 0 for false.
Validatable(value, required, minLength, maxLength, min, max) ==
    [value |-> value]
        @@ Option(required # Absent, "required", required = 1)
        @@ Option(minLength # Absent, "minLength", minLength)
        @@ Option(maxLength # Absent, "maxLength", maxLength)
        @@ Option(min # Absent, "min", min)
        @@ Option(max # Absent, "max", max)

ValidatedValues ==
    {Str(<<>>), Str(<<" ">>), Str(<<"a", "b">>), Str(Desc5),
     Tenths(-10), Num(0), Num(3), Num(6), Tenths(25), NaN}

Validatables ==
    {Validatable(v, r, mnl, mxl, mn, mx) :
        v \in ValidatedValues, r \in {Absent, 0, 1}, mnl \in {Absent, 5},
        mxl \in {Absent, 3}, mn \in {Absent, 0, 1}, mx \in {Absent, 5}}

\* One call of validate; the call and its result are kept in `last`.
Validate ==
    /\ \E v \in Validatables :
          last' = [op |-> "validate", input |-> v, result |-> validate(v)]
    /\ UNCHANGED <<heap, projects, listeners, instance, instances, returned,
                   assignedProjects, cards, droppable, form, drag, notified>>

ValidateNext == Validate

ValidateSpec == Init /\ [][ValidateNext]_vars

(***************************************************************************)
(* Drag and drop                                                           *)
(***************************************************************************)
EmptyTransfer == [types |-> <<>>, data |-> <<>>]

\* DataTransfer.setData: data is a sequence of <<format, value>> pairs
setData(dt, format, value) ==
    IF \E i \in 1..Len(dt.types) : dt.types[i] = format
    THEN [dt EXCEPT !.data = [i \in 1..Len(dt.data) |->
                                 IF dt.data[i][1] = format THEN <<format, value>>
                                 ELSE dt.data[i]]]
    ELSE [types |-> Append(dt.types, format),
          data |-> Append(dt.data, <<format, value>>)]

\* DataTransfer.getData: the empty string when the format carries no data
getData(dt, format) ==
    IF \E i \in 1..Len(dt.data) : dt.data[i][1] = format
    THEN dt.data[CHOOSE i \in 1..Len(dt.data) : dt.data[i][1] = format][2]
    ELSE ""

\* Drags that start outside the board: selected text, a link, files.
ExternalTransfers ==
    {setData(setData(EmptyTransfer, "text/plain", "hello"), "text/html", "<b>hello</b>"),
     setData(setData(EmptyTransfer, "text/uri-list", "http://x/"), "text/plain", "http://x/"),
     [types |-> <<"Files">>, data |-> <<>>]}

Dragging(source, dt) ==
    [phase |-> "dragging", source |-> source, dataTransfer |-> dt,
     over |-> "none", accepted |-> FALSE]

\* ProjectItem.dragStartHandler of the ProjectItem `item` (effectAllowed
\* is always 'move' and is left out)
dragStartHandler(item) ==
    setData(EmptyTransfer, "text/plain", heap[item.project].id)

\* ProjectList.dragOverHandler of column `type`: <<default prevented, marker>>
dragOverHandler(type, dt) ==
    IF Len(dt.types) > 0 /\ dt.types[1] = "text/plain"
    THEN <<TRUE, [droppable EXCEPT ![type] = TRUE]>>
    ELSE <<FALSE, droppable>>

\* ProjectList.dropHandler of column `type`
dropHandler(type, dt) ==
    LET prjId == getData(dt, "text/plain")
    IN  moveProject(prjId, IF type = "active" THEN Active ELSE Finished)

\* Variant: the marker is taken off every column.
dragLeaveHandler_clearAll(type) ==
    droppable' = [c \in Columns |-> FALSE]

\* ProjectList.dragLeaveHandler of column `type`
dragLeaveHandler(type) ==
    droppable' = [droppable EXCEPT ![type] = FALSE]

StoreUnchanged ==
    UNCHANGED <<heap, projects, assignedProjects, cards, form>> /\ StoreFrame

\* dragstart on a rendered card
DragStart ==
    /\ drag.phase = "idle"
    /\ \E c \in Columns : \E i \in 1..Len(cards[c]) :
          /\ drag' = Dragging(cards[c][i].project, dragStartHandler(cards[c][i]))
          /\ last' = [op |-> "dragstart", col |-> c, project |-> cards[c][i].project]
    /\ notified' = <<>>
    /\ UNCHANGED droppable
    /\ StoreUnchanged

\* a drag that started elsewhere enters the page
ExternalDrag ==
    /\ drag.phase = "idle"
    /\ \E dt \in ExternalTransfers : drag' = Dragging(0, dt)
    /\ last' = [op |-> "externaldrag"]
    /\ notified' = <<>>
    /\ UNCHANGED droppable
    /\ StoreUnchanged

\* dragover on a column; the pointer is over one column at a time
DragOver ==
    /\ drag.phase = "dragging"
    /\ \E c \in Columns :
          /\ drag.over \in {"none", c}
          /\ LET r == dragOverHandler(c, drag.dataTransfer)
             IN  /\ droppable' = r[2]
                 /\ drag' = [drag EXCEPT !.over = c, !.accepted = r[1]]
                 /\ last' = [op |-> "dragover", col |-> c, prevented |-> r[1]]
    /\ notified' = <<>>
    /\ StoreUnchanged

\* Variant: configure registers dropHandler for 'dragleave'.
DragLeave_wiredToDrop ==
    /\ drag.phase = "dragging"
    /\ \E c \in Columns :
          /\ drag.over = c
          /\ dropHandler(c, drag.dataTransfer)
          /\ drag' = [drag EXCEPT !.over = "none", !.accepted = FALSE]
          /\ last' = [op |-> "dragleave", col |-> c]
    /\ UNCHANGED <<droppable, form>>
    /\ StoreFrame

\* dragleave on the column the pointer was over
DragLeave ==
    /\ drag.phase = "dragging"
    /\ \E c \in Columns :
          /\ drag.over = c
          /\ dragLeaveHandler(c)
          /\ drag' = [drag EXCEPT !.over = "none", !.accepted = FALSE]
          /\ last' = [op |-> "dragleave", col |-> c]
    /\ notified' = <<>>
    /\ StoreUnchanged

\* drop on the column whose last dragover was accepted
Drop ==
    /\ drag.phase = "dragging"
    /\ \E c \in Columns :
          /\ drag.over = c
          /\ drag.accepted
          /\ dropHandler(c, drag.dataTransfer)
          /\ last' = [op |-> "drop", col |-> c,
                      id |-> getData(drag.dataTransfer, "text/plain"),
                      status |-> StatusOf(c)]
    /\ drag' = [drag EXCEPT !.phase = "dropped"]
    /\ UNCHANGED <<droppable, form>>
    /\ StoreFrame

\* ProjectItem.dragEndHandler only logs; the gesture is over
DragEnd ==
    /\ \/ drag.phase = "dropped"
       \/ drag.phase = "dragging" /\ drag.over = "none"
    /\ drag' = NoDrag
    /\ last' = [op |-> "dragend", dropped |-> drag.phase = "dropped"]
    /\ notified' = <<>>
    /\ UNCHANGED droppable
    /\ StoreUnchanged

Next ==
    \/ Input(BoardForms) \/ Submit
    \/ DragStart \/ ExternalDrag \/ DragOver \/ DragLeave \/ Drop \/ DragEnd

Spec == Init /\ [][Next]_vars

(***************************************************************************)
(* Properties of the store                                                 *)
(***************************************************************************)
Mutation == {"addProject", "moveProject"}
Names(log) == [i \in 1..Len(log) |-> log[i].listener]
Count(x, seq) == Cardinality({i \in 1..Len(seq) : seq[i] = x})
IsPrefix(s, t) == Len(s) <= Len(t) /\ SubSeq(t, 1, Len(s)) = s
AllFns == Columns \cup Probes

\* C1: one addProject call makes the store one project longer, the new
\* project is Active and is the last element, the earlier elements stay,
\* and every registration in the listener list is invoked exactly once, in
\* one call whose snapshot ends with the new project.
C1_AddProject ==
    [][last'.op = "addProject" =>
        LET n == Len(projects') IN
        /\ n = Len(projects) + 1
        /\ SubSeq(projects', 1, n - 1) = projects
        /\ \A i \in 1..Len(projects) : projects[i] # projects'[n]
        /\ heap'[projects'[n]].status = Active
        /\ Len(notified') = Len(listeners)
        /\ \A i \in 1..Len(listeners) :
              /\ notified'[i].listener = listeners[i]
              /\ Len(notified'[i].items) = n
              /\ notified'[i].items[n] = projects'[n]
              /\ notified'[i].seen[n] = heap'[projects'[n]]]_vars

C1_Witness ==
    /\ last.op = "addProject"
    /\ Len(projects) = 2
    /\ Len(listeners) > 2
    /\ Len(notified) = Len(listeners)
    /\ heap[projects[2]].status = Active
    /\ heap[projects[1]].status = Finished

\* C2: after moveProject(p.id, s), every project p of the store whose id
\* was passed has status s, and every listener was notified.
C2_MoveSetsStatus ==
    last.op = "moveProject" =>
        /\ \A i \in 1..Len(projects) :
              heap[projects[i]].id = last.id => heap[projects[i]].status = last.status
        /\ Names(notified) = listeners

\* C3: moveProject with an id no project has (the empty string included)
\* leaves every project and the sequence as they were and still invokes
\* every listener with a snapshot of the sequence.
C3_MoveUnmatched ==
    [][(/\ last'.op = "moveProject"
        /\ \A i \in 1..Len(projects) : heap[projects[i]].id # last'.id) =>
        /\ heap' = heap
        /\ projects' = projects
        /\ Names(notified') = listeners
        /\ \A i \in 1..Len(notified') :
              /\ notified'[i].items = projects
              /\ notified'[i].seen = Deref(heap, projects)]_vars

C3_Witness ==
    /\ last.op = "moveProject"
    /\ last.id = ""
    /\ Len(projects) = 2
    /\ heap[projects[1]].status # heap[projects[2]].status
    /\ Names(notified) = listeners

\* C4: no two projects of the store have the same id.
C4_UniqueIds ==
    \A i, j \in 1..Len(projects) :
        i # j => heap[projects[i]].id # heap[projects[j]].id

\* C5: every getInstance call returns the same instance.
C5_SingleInstance ==
    \A i, j \in 1..Len(returned) : returned[i] = returned[j]

\* C6: on every addProject and moveProject call the listeners are invoked
\* in registration order, each seeing the sequence and the projects as the
\* mutation left them, all within the call; and no step removes or reorders
\* a registered listener.
C6_NotifyInOrder ==
    [][/\ last'.op \in Mutation =>
            /\ Names(notified') = listeners
            /\ \A i \in 1..Len(notified') :
                  /\ notified'[i].items = projects'
                  /\ notified'[i].seen = Deref(heap', projects')
       /\ IsPrefix(listeners, listeners')]_vars

C6_Witness ==
    /\ last.op = "moveProject"
    /\ listeners = <<"active", "finished", "g", "f">>
    /\ Names(notified) = listeners
    /\ \E i \in 1..Len(projects) : heap[projects[i]].status = Finished

\* C7: addListener never de-duplicates (each call makes the list one entry
\* longer), and a function registered k times is invoked exactly k times
\* by each addProject or moveProject call.
C7_NoDedup ==
    [][/\ last'.op = "addListener" =>
            Count(last'.fn, listeners') = Count(last'.fn, listeners) + 1
       /\ last'.op \in Mutation =>
            \A fn \in AllFns :
                Count(fn, Names(notified')) = Count(fn, listeners)]_vars

C7_Witness ==
    /\ last.op \in Mutation
    /\ Count("f", listeners) = 2
    /\ Count("f", Names(notified)) = 2

\* C8: each column holds exactly the projects of the store with its status,
\* in store order, so every project is in exactly one of the two views.
C8_ColumnViews ==
    /\ \A c \in Columns :
          assignedProjects[c] =
              SelectSeq(projects, LAMBDA prj : heap[prj].status = StatusOf(c))
    /\ \A i \in 1..Len(projects) :
          Count(projects[i], assignedProjects["active"])
            + Count(projects[i], assignedProjects["finished"]) = 1

C8_Witness ==
    /\ last.op = "moveProject"
    /\ Len(assignedProjects["active"]) = 1
    /\ Len(assignedProjects["finished"]) = 1
    /\ assignedProjects["finished"][1] < assignedProjects["active"][1]

\* C11: whatever a listener does with its snapshot, an addProject or
\* moveProject call leaves the store's sequence and every project record
\* as the call itself made them (at most the status of a project with the
\* moved id differs from before), and all listeners of the call see the
\* same records.
C11_DefensiveCopy ==
    [][last'.op \in Mutation =>
        /\ IsPrefix(projects, projects')
        /\ \A r \in 1..Len(heap) :
              \/ heap'[r] = heap[r]
              \/ /\ last'.op = "moveProject"
                 /\ heap[r].id = last'.id
                 /\ heap'[r] = [heap[r] EXCEPT !.status = last'.status]
        /\ \A i \in 1..Len(notified') :
              notified'[i].seen = notified'[1].seen]_vars

(***************************************************************************)
(* Properties of the board                                                 *)
(***************************************************************************)
Other(c) == IF c = "active" THEN "finished" ELSE "active"
InView(p, c) == \E i \in 1..Len(assignedProjects[c]) : assignedProjects[c][i] = p

\* C9: after dragstart on the card of project p, dragover and drop on
\* column C, p has C's status, is in C's view and not in the other view;
\* the drop passed the id of p and the status of C to moveProject.
C9_DragMoves ==
    (last.op = "drop" /\ drag.source # 0) =>
        /\ last.id = heap[drag.source].id
        /\ last.status = StatusOf(last.col)
        /\ heap[drag.source].status = StatusOf(last.col)
        /\ InView(drag.source, last.col)
        /\ ~InView(drag.source, Other(last.col))

\* C16: over addProject and moveProject calls no project is removed and
\* the order of the store never changes, a project's id, title, description
\* and people count never change, and a moveProject call changes at most
\* the status of one project, which carries the id it was given.
C16_Frame ==
    [][/\ IsPrefix(projects, projects')
       /\ \A r \in 1..Len(heap) :
             heap'[r] = [heap[r] EXCEPT !.status = heap'[r].status]
       /\ last'.op = "addProject" => SubSeq(heap', 1, Len(heap)) = heap
       /\ last'.op = "moveProject" =>
             /\ projects' = projects
             /\ Len(heap') = Len(heap)
             /\ Cardinality({r \in 1..Len(heap) : heap'[r] # heap[r]}) <= 1
             /\ \A r \in 1..Len(heap) :
                   heap'[r] # heap[r] => heap[r].id = last'.id]_vars

C16_Witness ==
    /\ last.op = "moveProject"
    /\ Len(projects) = 2
    /\ heap[projects[1]].id = last.id
    /\ heap[projects[2]].id = last.id
    /\ heap[projects[1]].status = Finished
    /\ heap[projects[2]].status = Active

HasPlainText(dt) == \E i \in 1..Len(dt.types) : dt.types[i] = "text/plain"

\* C12: a dragover prevents the default and marks its column exactly when
\* text/plain is among the offered types, wherever it stands in the list;
\* otherwise the markers stay as they were.
C12_DragOverIffPlain ==
    [][last'.op = "dragover" =>
        LET plain == HasPlainText(drag.dataTransfer) IN
        /\ last'.prevented <=> plain
        /\ plain => droppable'[last'.col]
        /\ ~plain => droppable' = droppable
        /\ droppable'[Other(last'.col)] = droppable[Other(last'.col)]]_vars

\* C13: once a drop has been handled no column carries the droppable marker.
C13_DropClearsMarker ==
    last.op = "drop" => \A c \in Columns : ~droppable[c]

\* C14: a dragleave on a column takes the marker off that column, set or
\* not, and leaves the other column's marker as it was.
C14_DragLeave ==
    [][last'.op = "dragleave" =>
        /\ ~droppable'[last'.col]
        /\ droppable'[Other(last'.col)] = droppable[Other(last'.col)]]_vars

C14_Witness ==
    /\ last.op = "dragleave"
    /\ ~droppable[last.col]
    /\ droppable[Other(last.col)]

\* C15: dragstart, dragover, dragleave and dragend (and a drag entering
\* from outside) leave the store's sequence, every project and the views
\* unchanged and call no listener.
NonDropEvents == {"dragstart", "externaldrag", "dragover", "dragleave", "dragend"}
C15_NoDropNoMutation ==
    [][last'.op \in NonDropEvents =>
        /\ heap' = heap
        /\ projects' = projects
        /\ assignedProjects' = assignedProjects
        /\ notified' = <<>>]_vars

C15_Witness ==
    /\ last.op = "dragend"
    /\ ~last.dropped
    /\ droppable["finished"]
    /\ Len(projects) = 2
    /\ \A i \in 1..2 : heap[projects[i]].status = Active
    /\ notified = <<>>

\* C20: at most one column carries the droppable marker.
C20_OneMarker ==
    ~(droppable["active"] /\ droppable["finished"])

\* C17: every project of the store has a non-empty title, a description
\* of at least 5 characters, a people count that is an integer from 1 to 5
\* and a status that is Active or Finished.
C17_ValidProjects ==
    \A i \in 1..Len(projects) :
        LET p == heap[projects[i]] IN
        /\ Len(p.title) > 0
        /\ Len(p.description) >= 5
        /\ ~p.people.nan
        /\ p.people.tenths % 10 = 0
        /\ p.people.tenths >= 10 /\ p.people.tenths <= 50
        /\ p.status \in ProjectStatus

(***************************************************************************)
(* Properties of validate                                                  *)
(***************************************************************************)
IsSet(v, f) == f \in DOMAIN v
RequiredRule(v) == Len(trim(toString(v.value))) # 0
MinLengthRule(v) == Len(v.value.str) >= v.minLength
MaxLengthRule(v) == Len(v.value.str) <= v.maxLength
MinRule(v) == ~v.value.nan /\ v.value.tenths >= 10 * v.min
MaxRule(v) == ~v.value.nan /\ v.value.tenths <= 10 * v.max

\* The conjunction of the applicable rules, as the claim lists them.
ApplicableRules(v) ==
    /\ (IsSet(v, "required") /\ v.required) => RequiredRule(v)
    /\ (IsSet(v, "minLength") /\ v.value.type = "string") => MinLengthRule(v)
    /\ (IsSet(v, "maxLength") /\ v.value.type = "string") => MaxLengthRule(v)
    /\ (IsSet(v, "min") /\ v.value.type = "number") => MinRule(v)
    /\ (IsSet(v, "max") /\ v.value.type = "number") => MaxRule(v)

Example1 == Validatable(Str(<<>>), 1, Absent, Absent, Absent, Absent)
Example2 == Validatable(Str(<<"a", "b">>), 1, 5, Absent, Absent, Absent)
Example3 == Validatable(Num(3), 1, Absent, Absent, 1, 5)
Example4 == Validatable(Num(6), Absent, Absent, Absent, 1, 5)

\* C18: validate returns the conjunction of exactly the applicable rules;
\* it is false on {value:"", required}, false on {value:"ab", required,
\* minLength:5}, true on {value:3, required, min:1, max:5} and false on
\* {value:6, min:1, max:5}.
C18_Validate ==
    last.op = "validate" =>
        /\ last.result = ApplicableRules(last.input)
        /\ last.input = Example1 => last.result = FALSE
        /\ last.input = Example2 => last.result = FALSE
        /\ last.input = Example3 => last.result = TRUE
        /\ last.input = Example4 => last.result = FALSE

C18_Witness ==
    /\ last.op = "validate"
    /\ last.input = Example4
    /\ last.result = FALSE

(***************************************************************************)
(* Properties of the submission flow                                       *)
(***************************************************************************)
\* The three gates as the claim states them, on the field texts.
TitleGate(f) == Len(trim(f.title)) # 0
DescriptionGate(f) == Len(trim(f.description)) # 0 /\ Len(f.description) >= 5
PeopleGate(f) ==
    LET n == toNumber(f.people)
    IN  ~n.nan /\ n.tenths >= 10 /\ n.tenths <= 50
AllGates(f) == TitleGate(f) /\ DescriptionGate(f) /\ PeopleGate(f)

\* C10: a submit whose three gates pass makes exactly one addProject call
\* with the typed values and clears the three fields; a submit with a
\* failing gate leaves the projects and the fields alone and calls no
\* listener.
C10_SubmitGates ==
    [][last'.op = "submit" =>
        IF AllGates(form)
        THEN /\ Len(projects') = Len(projects) + 1
             /\ SubSeq(projects', 1, Len(projects)) = projects
             /\ SubSeq(heap', 1, Len(heap)) = heap
             /\ LET new == heap'[projects'[Len(projects')]]
                IN  /\ new.title = form.title
                    /\ new.description = form.description
                    /\ new.people = toNumber(form.people)
                    /\ new.status = Active
             /\ Names(notified') = listeners
             /\ form' = ClearedForm
        ELSE /\ heap' = heap
             /\ projects' = projects
             /\ assignedProjects' = assignedProjects
             /\ notified' = <<>>
             /\ form' = form]_vars

C10_Witness ==
    /\ last.op = "submit"
    /\ form = ClearedForm
    /\ Len(projects) = 2
    /\ Names(notified) = listeners
    /\ heap[projects[2]].people = Tenths(25)

\* A people text that is empty (after trimming) or holds a character that
\* belongs to no decimal number.
EmptyText(s) == trim(s) = <<>>
NonNumericText(s) == \E i \in 1..Len(s) : ~IsDigit(s[i]) /\ s[i] \notin {".", " "}

\* C19: on a submit with an empty or non-numeric people text the coercion
\* gives 0 (empty) or NaN (non-numeric), the people gate returns false, and
\* no project is created.
C19_EmptyPeopleFails ==
    [][(last'.op = "submit" /\ (EmptyText(form.people) \/ NonNumericText(form.people))) =>
        LET people == toNumber(form.people) IN
        /\ EmptyText(form.people) => people = Num(0)
        /\ NonNumericText(form.people) => people = NaN
        /\ ~validate([value |-> people, required |-> TRUE, min |-> 1, max |-> 5])
        /\ projects' = projects
        /\ heap' = heap
        /\ notified' = <<>>]_vars

C19_Witness ==
    /\ last.op = "submit"
    /\ form = [title |-> TitleT, description |-> Desc5, people |-> <<"x">>]
    /\ projects = <<>>
    /\ notified = <<>>

====
